---- MODULE Spec2Model ----
(***************************************************************************)
(* Model of the offline sync queue of the Callivate backend:               *)
(*   - the background engine, app/services/advanced_sync_service.py        *)
(*     (batch processor, conflict resolver, optimizer, cleanup), and       *)
(*   - the HTTP handlers of app/api/api_v1/endpoints/sync.py.              *)
(* Both work on two stores: the sync_queue table and the target table the  *)
(* queued mutations are applied to.                                        *)
(*                                                                         *)
(* Granularity.  The Supabase client is synchronous, so a coroutine of the *)
(* engine runs without suspension until it awaits asyncio.gather or        *)
(* asyncio.sleep.  The engine's loops therefore interleave only between    *)
(* the poll read and the owner batches and between two owner batches.  A   *)
(* batch is modelled record by record so that the states the store passes  *)
(* through are states of the model; the HTTP handlers are atomic.          *)
(***************************************************************************)
EXTENDS Integers, Sequences, FiniteSets, TLC

VARIABLES
    queue,      \* sync_queue table: id -> row
    server,     \* target table: row id -> row
    now,        \* wall clock read by datetime.now()
    nextId,     \* next sync_queue id the store hands out
    batches,    \* owner -> records of the current poll cycle still to process
    running,    \* owner whose batch is being processed, or NoUser
    faults,     \* store calls that may still raise
    cap,        \* sync_queue rows the behaviour may insert
    resolves,   \* entries of POST /sync/resolve-conflicts the behaviour may send
    retention,  \* timedelta(days=30) of the cleanup loop, in ticks of the clock
    deadline,   \* the last value of the clock
    consolidated, \* history: the last step was a pass of the optimizer
    swept,      \* history: the last step was a pass of the cleanup loop
    effects,    \* history: id -> times its processing changed the target table
    executed,   \* history: ids whose operation was run against the target table
    root,       \* history: id -> id of the mutation it retries (itself if none)
    is_running, \* AdvancedSyncService.is_running
    generation, \* start_service calls that created tasks; self._tasks are the latest
    tasks,      \* the loop tasks that are not done: <<generation, loop>>
    cancelled,  \* the tasks among them that task.cancel() was called on
    awaited,    \* generations whose tasks a suspended stop_service call gathers
    returned,   \* history: generations for which a stop_service call has returned
    calls,      \* start_service and stop_service calls made so far
    detected    \* the result of the detector applied to the inputs, or NoData

vars == <<queue, server, now, nextId, batches, running, faults, cap, resolves,
          retention, deadline,
          consolidated, swept, effects, executed, root,
          is_running, generation, tasks, cancelled, awaited, returned, calls, detected>>

-----------------------------------------------------------------------------
(* Bounds *)

MaxItems == 2       \* sync_queue rows inserted in a behaviour of Spec
MaxEngineItems == 3 \* sync_queue rows inserted in a behaviour of SpecEngine
MaxRetryItems == 5  \* sync_queue rows inserted in a behaviour of SpecRetry
MaxTime == 3        \* the clock runs from StartTime to MaxTime
MaxResolves == 2    \* resolve-conflicts entries in a behaviour of Spec
MaxFaults == 2      \* store calls that raise in a behaviour of SpecFaults
MaxRetryFaults == 4 \* store calls that raise in a behaviour of SpecRetry
MaxApiResolves == 5 \* resolve-conflicts entries in a behaviour of SpecApi
FineWindow == 2     \* ticks of the clock in the 30 days of SpecCleanup
MaxCleanupTime == 4 \* the clock of SpecCleanup runs from StartTime to this
MaxCleanupFaults == 1 \* store calls that raise in a behaviour of SpecCleanup
MaxBatchItems == 3  \* sync_queue rows inserted in a behaviour of SpecBatch
MaxBatchFaults == 1 \* store calls that raise in a behaviour of SpecBatch
MaxCalls == 4       \* start_service and stop_service calls in a behaviour of SpecLifecycle
MaxStamp == 3       \* times a timestamp text of SpecDetect can denote
MaxCount == 4       \* retry_count is followed up to this value
MaxHistory == 2     \* the history counters saturate at this value

Users == {"u1", "u2"}
NoUser == "nobody"
Recs == {"r1", "r2"}
GenIds == {"g1", "g2"}          \* ids the store generates for rows inserted without id

(* Program constants *)
DefaultMaxRetries == 3          \* sync_queue.max_retries default

PENDING == "pending"
PROCESSING == "processing"
COMPLETED == "completed"
FAILED == "failed"
CONFLICT == "conflict"

CREATE == "create"
UPDATE == "update"
DELETE == "delete"

SERVER_WINS == "server_wins"
CLIENT_WINS == "client_wins"
MERGE == "merge"
MANUAL == "manual"

NULL == "null"
SUPERSEDED == "superseded_by_newer_operation"

-----------------------------------------------------------------------------
(* Key/value maps (Python dict, JSON object) *)

Has(d, k) == k \in DOMAIN d

Put(d, k, v) == [x \in DOMAIN d \cup {k} |-> IF x = k THEN v ELSE d[x]]

Overlay(base, over) ==
    [x \in DOMAIN base \cup DOMAIN over |->
        IF x \in DOMAIN over THEN over[x] ELSE base[x]]

Without(d, k) == [x \in DOMAIN d \ {k} |-> d[x]]

Bump(n) == IF n < MaxHistory THEN n + 1 ELSE n

-----------------------------------------------------------------------------
(* The target table (PostgREST over Postgres, primary key id) *)

NoData == <<>>      \* Python None / an empty response.data

FreeGen(t) == GenIds \ DOMAIN t

FreshId(t) == CHOOSE g \in FreeGen(t) : TRUE

\* insert(data).execute(): the id defaults to a generated one, the two
\* timestamps default to NOW(); a duplicate primary key raises.
TableInsert(t, data, at) ==
    IF ~Has(data, "id") /\ FreeGen(t) = {}
    THEN [raised |-> FALSE, full |-> TRUE, table |-> t, data |-> NoData]
    ELSE LET rid == IF Has(data, "id") THEN data["id"] ELSE FreshId(t)
             row == Overlay([id |-> rid, created_at |-> at, updated_at |-> at], data)
         IN  IF rid \in DOMAIN t
             THEN [raised |-> TRUE, full |-> FALSE, table |-> t, data |-> NoData]
             ELSE [raised |-> FALSE, full |-> FALSE, table |-> Put(t, rid, row), data |-> row]

\* update(data).eq("id", rid).execute(): no matching row is no error.
TableUpdate(t, rid, data) ==
    IF rid \in DOMAIN t
    THEN LET row == Overlay(t[rid], data)
         IN  [raised |-> FALSE, full |-> FALSE, table |-> Put(t, rid, row), data |-> row]
    ELSE [raised |-> FALSE, full |-> FALSE, table |-> t, data |-> NoData]

\* upsert(data).execute(), data carrying the id.
TableUpsert(t, data, at) ==
    IF data["id"] \in DOMAIN t
    THEN TableUpdate(t, data["id"], data)
    ELSE TableInsert(t, data, at)

\* delete().eq("id", rid).execute()
TableDelete(t, rid) ==
    IF rid \in DOMAIN t
    THEN [raised |-> FALSE, full |-> FALSE, table |-> Without(t, rid), data |-> t[rid]]
    ELSE [raised |-> FALSE, full |-> FALSE, table |-> t, data |-> NoData]

\* A store call that raises changes nothing.
Raised(t) == [raised |-> TRUE, full |-> FALSE, table |-> t, data |-> NoData]

-----------------------------------------------------------------------------
(* The sync_queue table *)

\* update(upd).eq("id", id).execute() on sync_queue
QueueUpdate(q, id, upd) ==
    IF id \in DOMAIN q THEN Put(q, id, Overlay(q[id], upd)) ELSE q

\* A row as a client writes it: the columns it gives, the others at their
\* defaults.  data_enc is the JSON form of the data column: "text" (a JSON
\* string, the form _parse_sync_item's json.loads accepts) or "object" (a JSON
\* object or null, the form the SyncQueue pydantic model accepts).
NewRow(id, req, st, enc, at) ==
    [id |-> id, user_id |-> req.user_id, table_name |-> req.table_name,
     record_id |-> req.record_id, operation |-> req.operation, data |-> req.data,
     data_enc |-> enc, conflict_resolution |-> req.conflict_resolution,
     retry_count |-> 0, max_retries |-> DefaultMaxRetries, status |-> st,
     error_message |-> NULL, created_at |-> at, processed_at |-> 0]

\* _parse_sync_item: json.loads(data["data"]) raises unless the column holds a
\* JSON string.
ParseOk(row) == row.data_enc = "text"

\* SyncQueue(**row): the model's Literal and Dict fields reject the values the
\* engine alone knows and a data column holding a string.
ValidSyncQueue(row) ==
    /\ row.data_enc = "object"
    /\ row.status \in {PENDING, PROCESSING, COMPLETED, FAILED}
    /\ row.conflict_resolution \in {SERVER_WINS, CLIENT_WINS, MERGE}

\* _mark_sync_completed: the exception of a failed write is logged and dropped.
MarkSyncCompleted(q, id, note, at, ok) ==
    IF ~ok THEN q
    ELSE QueueUpdate(q, id,
            IF note # NULL
            THEN [status |-> COMPLETED, processed_at |-> at, error_message |-> note]
            ELSE [status |-> COMPLETED, processed_at |-> at])

\* _mark_sync_failed
MarkSyncFailed(q, id, msg, at, ok) ==
    IF ~ok THEN q
    ELSE QueueUpdate(q, id, [status |-> FAILED, error_message |-> msg, processed_at |-> at])

\* A conflict mark whose message does not say which conflict was detected.
MarkSyncConflictUnnamed(q, id, kind, at, ok) ==
    IF ~ok THEN q
    ELSE QueueUpdate(q, id, [status |-> CONFLICT, error_message |-> "Conflict detected", processed_at |-> at])

\* _mark_sync_conflict
MarkSyncConflict(q, id, kind, at, ok) ==
    IF ~ok THEN q
    ELSE QueueUpdate(q, id, [status |-> CONFLICT, error_message |-> kind, processed_at |-> at])

-----------------------------------------------------------------------------
(* The engine's pipeline: AdvancedSyncService, one record *)

E_STORE == "store_error"                    \* str(e) of a raising store call
E_NO_DATA == "No data returned from insert"
E_NOT_UPDATED == "No records updated"

NoConflict == [has_conflict |-> FALSE, conflict_type |-> NULL, server_data |-> NoData]

\* _check_for_conflicts; readFails: the select raises, which the handler turns
\* into "no conflict".
CheckForConflicts(item, t, readFails) ==
    LET rid == item.record_id
        found == rid \in DOMAIN t
    IN  IF readFails THEN NoConflict
        ELSE IF item.operation = CREATE
        THEN IF found
             THEN [has_conflict |-> TRUE, conflict_type |-> "record_exists", server_data |-> t[rid]]
             ELSE NoConflict
        ELSE IF item.operation = UPDATE
        THEN IF ~found
             THEN [has_conflict |-> TRUE, conflict_type |-> "record_not_found", server_data |-> NoData]
             ELSE IF /\ Has(t[rid], "updated_at") /\ Has(item.data, "updated_at")
                     /\ t[rid]["updated_at"] > item.data["updated_at"]
                  THEN [has_conflict |-> TRUE, conflict_type |-> "newer_version", server_data |-> t[rid]]
                  ELSE NoConflict
        ELSE IF found
             THEN [has_conflict |-> TRUE, conflict_type |-> "record_exists", server_data |-> t[rid]]
             ELSE NoConflict

\* The text of an updated_at field: none, or an ISO-8601 text that carries a
\* UTC offset (or Z), carries none, or does not parse.  at is the time the
\* text denotes, in ticks long enough that a text without offset denotes a
\* time within the tick whatever zone it is read in.
NoStamp == [zone |-> "absent", at |-> 0]

StampTexts ==
    {NoStamp, [zone |-> "malformed", at |-> 0]}
        \cup [zone : {"offset", "naive"}, at : 1..MaxStamp]

\* datetime.fromisoformat(text.replace("Z", "+00:00")): an aware datetime, a
\* naive one, or ValueError.
FromIsoFormat(text) ==
    [raised |-> text.zone = "malformed", aware |-> text.zone = "offset", at |-> text.at]

\* server_time > client_time: Python raises TypeError when one datetime is
\* aware and the other is naive.
LaterThan(a, b) ==
    [raised |-> a.aware # b.aware, result |-> a.at > b.at]

\* _check_for_conflicts on the texts of the two timestamps: the conflict_type
\* it returns, or "none".  Whatever raises inside it is caught and answered
\* with has_conflict False.
CheckForConflictsOn(op, found, server_updated, client_updated) ==
    IF op = CREATE THEN (IF found THEN "record_exists" ELSE "none")
    ELSE IF op = DELETE THEN (IF found THEN "record_exists" ELSE "none")
    ELSE IF ~found THEN "record_not_found"
    ELSE IF server_updated = NoStamp \/ client_updated = NoStamp THEN "none"
    ELSE LET server_time == FromIsoFormat(server_updated)
             client_time == FromIsoFormat(client_updated)
         IN  IF server_time.raised \/ client_time.raised THEN "none"
             ELSE IF LaterThan(server_time, client_time).raised THEN "none"
             ELSE IF LaterThan(server_time, client_time).result THEN "newer_version"
             ELSE "none"

\* The result of one of the steps below: the two tables after it, whether it
\* succeeded, whether a write of the record's operation was issued to the
\* target table, and whether the model ran out of generated ids.
Outcome(q, r, ok, ran) ==
    [queue |-> q, server |-> r.table, success |-> ok, ran |-> ran, full |-> r.full]

Unchanged(t) == [raised |-> FALSE, full |-> FALSE, table |-> t, data |-> NoData]

\* _execute_create
ExecuteCreate(item, t, at, raises) ==
    IF raises THEN Raised(t) ELSE TableInsert(t, item.data, at)

\* An update that also stamps updated_at with the time of the write.
ExecuteUpdateStamping(item, t, at, raises) ==
    IF raises THEN Raised(t)
    ELSE TableUpdate(t, item.record_id, Put(item.data, "updated_at", at))

\* _execute_update
ExecuteUpdate(item, t, at, raises) ==
    IF raises THEN Raised(t) ELSE TableUpdate(t, item.record_id, item.data)

\* _execute_delete
ExecuteDelete(item, t, at, raises) ==
    IF raises THEN Raised(t) ELSE TableDelete(t, item.record_id)

\* _execute_sync_operation: fault is "op" (the target write raises), "mark"
\* (the status write raises) or anything else (neither).
ExecuteSyncOperation(item, q, t, at, fault) ==
    LET r == IF item.operation = CREATE THEN ExecuteCreate(item, t, at, fault = "op")
             ELSE IF item.operation = UPDATE THEN ExecuteUpdate(item, t, at, fault = "op")
             ELSE ExecuteDelete(item, t, at, fault = "op")
        ok == ~r.raised /\ (item.operation = DELETE \/ r.data # NoData)
        msg == IF r.raised THEN E_STORE
               ELSE IF item.operation = CREATE THEN E_NO_DATA ELSE E_NOT_UPDATED
    IN  IF ok
        THEN Outcome(MarkSyncCompleted(q, item.id, NULL, at, fault # "mark"), r, TRUE, TRUE)
        ELSE Outcome(MarkSyncFailed(q, item.id, msg, at, fault # "mark"), r, FALSE, TRUE)

\* _force_sync_operation
ForceSyncOperation(item, t, at, raises) ==
    IF raises THEN Raised(t)
    ELSE IF item.operation = CREATE
    THEN TableUpsert(t, Put(Put(item.data, "id", item.record_id), "updated_at", at), at)
    ELSE IF item.operation = UPDATE
    THEN TableUpdate(t, item.record_id, Put(item.data, "updated_at", at))
    ELSE TableDelete(t, item.record_id)

ForceSucceeded(item, r) ==
    ~r.raised /\ (item.operation = DELETE \/ r.data # NoData)

\* A merge that overlays the whole payload and leaves updated_at as the
\* payload has it.
MergedDataUnstamped(data, server_data, at) == Overlay(server_data, data)

\* The dict _merge_conflict_data builds: the server row, the client's values
\* of the other keys where they differ, updated_at at the resolution time.
MergedData(data, server_data, at) ==
    LET keys == {k \in DOMAIN data \ {"id", "created_at", "updated_at"} :
                    ~Has(server_data, k) \/ server_data[k] # data[k]}
    IN  Put(Overlay(server_data, [k \in keys |-> data[k]]), "updated_at", at)

\* _merge_conflict_data
MergeConflictData(item, server_data, q, t, at, fault) ==
    IF server_data = NoData
    THEN Outcome(q, Unchanged(t), FALSE, FALSE)
    ELSE LET r == IF fault = "op" THEN Raised(t)
                  ELSE TableUpdate(t, item.record_id, MergedData(item.data, server_data, at))
         IN  IF ~r.raised /\ r.data # NoData
             THEN Outcome(MarkSyncCompleted(q, item.id, NULL, at, fault # "mark"), r, TRUE, TRUE)
             ELSE Outcome(q, r, FALSE, TRUE)

\* A conflict handler that forces the client's operation whatever the policy.
HandleConflictForcing(item, c, q, t, at, fault) ==
    LET r == ForceSyncOperation(item, t, at, fault = "op")
    IN  Outcome(MarkSyncCompleted(q, item.id, NULL, at, fault # "mark"), r,
                ForceSucceeded(item, r), TRUE)

\* _handle_conflict
HandleConflict(item, c, q, t, at, fault) ==
    IF item.conflict_resolution = SERVER_WINS
    THEN Outcome(MarkSyncCompleted(q, item.id, NULL, at, fault # "mark"), Unchanged(t), TRUE, FALSE)
    ELSE IF item.conflict_resolution = CLIENT_WINS
    THEN LET r == ForceSyncOperation(item, t, at, fault = "op")
         IN  Outcome(q, r, ForceSucceeded(item, r), TRUE)
    ELSE IF item.conflict_resolution = MERGE
    THEN MergeConflictData(item, c.server_data, q, t, at, fault)
    ELSE Outcome(MarkSyncConflict(q, item.id, c.conflict_type, at, fault # "mark"),
                 Unchanged(t), FALSE, FALSE)

\* _process_sync_item: fault "detect" is a raising read of the detector.
ProcessSyncItem(item, q, t, at, fault) ==
    LET c == CheckForConflicts(item, t, fault = "detect")
    IN  IF c.has_conflict
        THEN HandleConflict(item, c, q, t, at, fault)
        ELSE ExecuteSyncOperation(item, q, t, at, fault)

-----------------------------------------------------------------------------
(* Inputs *)

ClientTime == 1     \* the updated_at a client payload carries
ServerTime == 2     \* the updated_at of a row the server already holds
StartTime == 2      \* the clock at the start

ServerRow(rid) ==
    [id |-> rid, val |-> "s", srv |-> "x", created_at |-> ClientTime, updated_at |-> ServerTime]

\* The payloads clients send with an operation on record rid.
Payloads(op, rid) ==
    IF op = DELETE THEN {<<>>}
    ELSE IF op = UPDATE
    THEN {[val |-> "c"], [val |-> "c", updated_at |-> ClientTime]}
    ELSE {[val |-> "c"], [id |-> rid, val |-> "c", updated_at |-> ClientTime]}

Request(u, rid, op, d, pol) ==
    [user_id |-> u, table_name |-> "notes", record_id |-> rid, operation |-> op,
     data |-> d, conflict_resolution |-> pol]

Ops == {CREATE, UPDATE, DELETE}

EnginePolicies == {SERVER_WINS, CLIENT_WINS, MERGE, MANUAL}

ApiPolicies == {SERVER_WINS, CLIENT_WINS, MERGE}    \* SyncQueueBase.conflict_resolution

\* The requests of the given owners (<<user, record>> pairs) with every
\* payload of the given operations and every given policy.
Requests(owners, ops, policies) ==
    UNION {{Request(x[1][1], x[1][2], x[2], d, x[3]) : d \in Payloads(x[2], x[1][2])} :
            x \in owners \X ops \X policies}

\* The payload of each operation that carries the client's timestamp.
Stamped(reqs) == {r \in reqs : r.operation = DELETE \/ Has(r.data, "updated_at")}

\* The payload of each operation that carries no timestamp and no id.
Bare(reqs) == {r \in reqs : r.operation = DELETE \/ ~Has(r.data, "updated_at")}

-----------------------------------------------------------------------------
(* State *)

Ids == DOMAIN queue

Seqs(S) == {f \in [1..Cardinality(S) -> S] : \A i, j \in 1..Cardinality(S) : i # j => f[i] # f[j]}

\* A select that returns the rows in any order.
Unordered(q, S) == Seqs(S)

\* The orders in which select(...).order("created_at") may return rows: ties
\* come in any order.
OrderedByCreation(q, S) ==
    {f \in Seqs(S) : \A i, j \in 1..Cardinality(S) : i < j => q[f[i]].created_at <= q[f[j]].created_at}

RECURSIVE SelectUser(_, _, _)
SelectUser(q, order, u) ==
    IF order = <<>> THEN <<>>
    ELSE IF q[Head(order)].user_id = u
         THEN <<q[Head(order)]>> \o SelectUser(q, Tail(order), u)
         ELSE SelectUser(q, Tail(order), u)

FaultKinds(kinds) == {"none"} \cup (IF faults > 0 THEN kinds ELSE {})

Spend(fault) == IF fault = "none" THEN faults ELSE faults - 1

\* The four loops start_service creates.
Loops == {"batch", "resolver", "optimizer", "cleanup"}

\* The tasks start_service creates for generation g.
TasksOf(g) == {<<g, loop>> : loop \in Loops}

\* A task of the loop is running its while loop: created, not done and not
\* cancelled.
Live(loop) == \E t \in tasks \ cancelled : t[2] = loop

\* The variables of the service's life cycle and of the detector's check.
service == <<is_running, generation, tasks, cancelled, awaited, returned, calls, detected>>

\* The clock advances.
Tick ==
    /\ now < deadline
    /\ now' = now + 1
    /\ UNCHANGED <<queue, server, nextId, batches, running, faults, cap, resolves, effects, executed, root>>
    /\ consolidated' = FALSE
    /\ swept' = FALSE
    /\ UNCHANGED <<retention, deadline>>
    /\ UNCHANGED service

\* A client writes a mutation into sync_queue: status, retry_count,
\* max_retries and created_at take the column defaults.
Enqueue(req) ==
    /\ nextId <= cap
    /\ queue' = Put(queue, nextId, NewRow(nextId, req, PENDING, "text", now))
    /\ nextId' = nextId + 1
    /\ effects' = Put(effects, nextId, 0)
    /\ executed' = executed
    /\ root' = Put(root, nextId, nextId)
    /\ UNCHANGED <<server, now, batches, running, faults, cap, resolves>>
    /\ consolidated' = FALSE
    /\ swept' = FALSE
    /\ UNCHANGED <<retention, deadline>>
    /\ UNCHANGED service

-----------------------------------------------------------------------------
(* The batch processor *)

PendingIds == {i \in Ids : queue[i].status = PENDING}

\* _process_sync_batches up to asyncio.gather: read the Pending rows oldest
\* first, parse them, group them by owner.  A raising read or one row that
\* does not parse empties the whole list.
Poll(order, readFails) ==
    /\ Live("batch")
    /\ running = NoUser
    /\ \A u \in Users : batches[u] = <<>>
    /\ PendingIds # {}
    /\ order \in OrderedByCreation(queue, PendingIds)
    /\ readFails => faults > 0
    /\ faults' = IF readFails THEN faults - 1 ELSE faults
    /\ batches' = IF readFails \/ \E i \in PendingIds : ~ParseOk(queue[i])
                  THEN batches
                  ELSE [u \in Users |-> SelectUser(queue, order, u)]
    /\ UNCHANGED <<queue, server, now, nextId, running, cap, resolves, effects, executed, root>>
    /\ consolidated' = FALSE
    /\ swept' = FALSE
    /\ UNCHANGED <<retention, deadline>>
    /\ UNCHANGED service

RECURSIVE MarkProcessing(_, _, _, _)
\* _update_sync_status(item_ids, PROCESSING) for the first k ids
MarkProcessing(q, items, k, at) ==
    IF k = 0 \/ items = <<>> THEN q
    ELSE MarkProcessing(QueueUpdate(q, Head(items).id, [status |-> PROCESSING, processed_at |-> at]),
                        Tail(items), k - 1, at)

\* _process_user_batch, first part: mark the batch's rows Processing.  The
\* write of row k+1 may raise, which ends the marking and is logged.
BatchStart(u, k) ==
    /\ Live("batch")
    /\ running = NoUser
    /\ batches[u] # <<>>
    /\ k \in 0..Len(batches[u])
    /\ k < Len(batches[u]) => faults > 0
    /\ faults' = IF k < Len(batches[u]) THEN faults - 1 ELSE faults
    /\ queue' = MarkProcessing(queue, batches[u], k, now)
    /\ running' = u
    /\ UNCHANGED <<server, now, nextId, batches, cap, resolves, effects, executed, root>>
    /\ consolidated' = FALSE
    /\ swept' = FALSE
    /\ UNCHANGED <<retention, deadline>>
    /\ UNCHANGED service

\* A batch that stops at the first record that does not succeed.
BatchItemAborting(u, fault) ==
    /\ running = u
    /\ fault \in FaultKinds({"detect", "op", "mark"})
    /\ LET item == Head(batches[u])
           out == ProcessSyncItem(item, queue, server, now, fault)
       IN  /\ ~out.full
           /\ queue' = out.queue
           /\ server' = out.server
           /\ effects' = IF out.server # server THEN [effects EXCEPT ![item.id] = Bump(@)] ELSE effects
           /\ executed' = IF out.ran THEN executed \cup {item.id} ELSE executed
           /\ batches' = [batches EXCEPT ![u] = IF out.success THEN Tail(@) ELSE <<>>]
           /\ running' = IF Len(batches[u]) = 1 \/ ~out.success THEN NoUser ELSE u
    /\ faults' = Spend(fault)
    /\ UNCHANGED <<now, nextId, cap, resolves, root>>
    /\ consolidated' = FALSE
    /\ swept' = FALSE
    /\ UNCHANGED <<retention, deadline>>
    /\ UNCHANGED service

\* _process_user_batch, the loop body: one record of the batch.
BatchItem(u, fault) ==
    /\ running = u
    /\ fault \in FaultKinds({"detect", "op", "mark"})
    /\ LET item == Head(batches[u])
           out == ProcessSyncItem(item, queue, server, now, fault)
       IN  /\ ~out.full
           /\ queue' = out.queue
           /\ server' = out.server
           /\ effects' = IF out.server # server THEN [effects EXCEPT ![item.id] = Bump(@)] ELSE effects
           /\ executed' = IF out.ran THEN executed \cup {item.id} ELSE executed
    /\ faults' = Spend(fault)
    /\ batches' = [batches EXCEPT ![u] = Tail(@)]
    /\ running' = IF Len(batches[u]) = 1 THEN NoUser ELSE u
    /\ UNCHANGED <<now, nextId, cap, resolves, root>>
    /\ consolidated' = FALSE
    /\ swept' = FALSE
    /\ UNCHANGED <<retention, deadline>>
    /\ UNCHANGED service

-----------------------------------------------------------------------------
(* The optimizer *)

Key(row) == <<row.table_name, row.record_id>>

Position(order, i) == CHOOSE n \in DOMAIN order : order[n] = i

\* _get_user_pending_sync_items: the owner's Pending rows, or none of them
\* when one does not parse.
UserPending(q, u) ==
    LET mine == {i \in DOMAIN q : q[i].status = PENDING /\ q[i].user_id = u}
    IN  IF \E i \in mine : ~ParseOk(q[i]) THEN {} ELSE mine

\* A consolidator that keeps the oldest row of each group instead of the
\* latest one.
SupersededKeepingOldest(q, order) ==
    {i \in DOMAIN q : /\ i \in UserPending(q, q[i].user_id)
                      /\ \E j \in UserPending(q, q[i].user_id) :
                            /\ Key(q[j]) = Key(q[i])
                            /\ Position(order, j) < Position(order, i)}

\* _optimize_user_sync and _consolidate_sync_items: in each group of an
\* owner's Pending rows with one table_name:record_id, every row but the
\* last of the group in created_at order.
Superseded(q, order) ==
    {i \in DOMAIN q : /\ i \in UserPending(q, q[i].user_id)
                      /\ \E j \in UserPending(q, q[i].user_id) :
                            /\ Key(q[j]) = Key(q[i])
                            /\ Position(order, j) > Position(order, i)}

\* _optimize_incremental_sync: one pass over all owners.  lost: the rows
\* whose status write raises.
Optimize(order, lost) ==
    /\ Live("optimizer")
    /\ running = NoUser
    /\ PendingIds # {}
    /\ order \in OrderedByCreation(queue, PendingIds)
    /\ lost \subseteq Superseded(queue, order)
    /\ Cardinality(lost) <= faults
    /\ faults' = faults - Cardinality(lost)
    /\ queue' = [i \in Ids |->
                    IF i \in Superseded(queue, order) \ lost
                    THEN MarkSyncCompleted(queue, i, SUPERSEDED, now, TRUE)[i]
                    ELSE queue[i]]
    /\ UNCHANGED <<server, now, nextId, batches, running, cap, resolves, effects, executed, root>>
    /\ consolidated' = TRUE
    /\ swept' = FALSE
    /\ UNCHANGED <<retention, deadline>>
    /\ UNCHANGED service

-----------------------------------------------------------------------------
(* The background conflict resolver *)

ConflictIds == {i \in Ids : queue[i].status = CONFLICT}

RECURSIVE ResolveAllCompleting(_, _, _, _, _, _)
\* A resolver that completes every row it reads, whatever the row's policy.
ResolveAllCompleting(order, rows, acc, at, opFails, markFails) ==
    IF order = <<>> THEN acc
    ELSE ResolveAllCompleting(Tail(order), rows,
            [acc EXCEPT !.queue = MarkSyncCompleted(@, Head(order), "auto_resolved_server_wins", at, ~markFails)],
            at, opFails, markFails)

RECURSIVE ResolveAll(_, _, _, _, _, _)
\* The loop of _resolve_pending_conflicts over the rows read; acc carries the
\* two tables and the ids whose operation was forced.
ResolveAll(order, rows, acc, at, opFails, markFails) ==
    IF order = <<>> THEN acc
    ELSE LET item == rows[Head(order)]
             rest == Tail(order)
         IN  IF ~ParseOk(item)
             THEN ResolveAll(rest, rows, acc, at, opFails, markFails)
             ELSE IF item.conflict_resolution = SERVER_WINS
             THEN ResolveAll(rest, rows,
                    [acc EXCEPT !.queue = MarkSyncCompleted(@, item.id, "auto_resolved_server_wins", at, ~markFails)],
                    at, opFails, markFails)
             ELSE IF item.conflict_resolution = CLIENT_WINS
             THEN LET r == ForceSyncOperation(item, acc.server, at, opFails)
                      q2 == IF ForceSucceeded(item, r)
                            THEN MarkSyncCompleted(acc.queue, item.id, "auto_resolved_client_wins", at, ~markFails)
                            ELSE MarkSyncFailed(acc.queue, item.id, "Auto-resolution failed", at, ~markFails)
                  IN  ResolveAll(rest, rows,
                        [queue |-> q2, server |-> r.table, forced |-> acc.forced \cup {item.id},
                         full |-> acc.full \/ r.full],
                        at, opFails, markFails)
             ELSE ResolveAll(rest, rows, acc, at, opFails, markFails)

\* _resolve_pending_conflicts: one pass.  fault "op": the forced writes of
\* the pass raise; "mark": its status writes raise.
ResolvePending(order, fault) ==
    /\ Live("resolver")
    /\ running = NoUser
    /\ ConflictIds # {}
    /\ order \in OrderedByCreation(queue, ConflictIds)
    /\ fault \in FaultKinds({"op", "mark"})
    /\ LET out == ResolveAll(order, queue,
                    [queue |-> queue, server |-> server, forced |-> {}, full |-> FALSE],
                    now, fault = "op", fault = "mark")
       IN  /\ ~out.full
           /\ queue' = out.queue
           /\ server' = out.server
           /\ executed' = executed \cup out.forced
           /\ effects' = [i \in DOMAIN effects |->
                          IF i \in out.forced /\ out.server # server THEN Bump(effects[i]) ELSE effects[i]]
    /\ faults' = Spend(fault)
    /\ UNCHANGED <<now, nextId, batches, running, cap, resolves, root>>
    /\ consolidated' = FALSE
    /\ swept' = FALSE
    /\ UNCHANGED <<retention, deadline>>
    /\ UNCHANGED service

-----------------------------------------------------------------------------
(* Cleanup *)

RetentionWindow == 1    \* timedelta(days=30), the unit of the clock

\* A sweep that looks at the age of a row only, whatever its status.
SweptWhateverStatus(q, at) ==
    {i \in DOMAIN q : q[i].processed_at # 0 /\ q[i].processed_at <= at - retention}

\* _cleanup_old_sync_data: delete().eq("status", "completed")
\*                                 .lte("processed_at", cutoff)
Swept(q, at) ==
    {i \in DOMAIN q : q[i].status = COMPLETED /\ q[i].processed_at <= at - retention}

Sweep ==
    /\ Live("cleanup")
    /\ running = NoUser
    /\ Swept(queue, now) # {}
    /\ queue' = [i \in Ids \ Swept(queue, now) |-> queue[i]]
    /\ UNCHANGED <<server, now, nextId, batches, running, faults, cap, resolves, effects, executed, root>>
    /\ consolidated' = FALSE
    /\ swept' = TRUE
    /\ UNCHANGED <<retention, deadline>>
    /\ UNCHANGED service

-----------------------------------------------------------------------------
(* The HTTP handlers: endpoints/sync.py *)

\* _has_conflict
HasConflict(client_data, server_data) ==
    /\ Has(client_data, "updated_at")
    /\ Has(server_data, "updated_at")
    /\ server_data["updated_at"] > client_data["updated_at"]

\* _merge_data
MergeData(client_data, server_data, at) ==
    LET merged == Overlay(server_data, client_data)
        kept == IF Has(server_data, "created_at")
                THEN Put(merged, "created_at", server_data["created_at"])
                ELSE merged
    IN  Put(kept, "updated_at", at)

\* _handle_create_operation
HandleCreateOperation(item, t, at) ==
    IF item.record_id \in DOMAIN t
    THEN IF item.conflict_resolution = CLIENT_WINS
         THEN TableUpdate(t, item.record_id, item.data)
         ELSE Unchanged(t)
    ELSE TableInsert(t, Put(item.data, "id", item.record_id), at)

\* _handle_update_operation
HandleUpdateOperation(item, t, at) ==
    IF item.record_id \notin DOMAIN t
    THEN TableInsert(t, Put(item.data, "id", item.record_id), at)
    ELSE IF HasConflict(item.data, t[item.record_id])
    THEN IF item.conflict_resolution = CLIENT_WINS
         THEN TableUpdate(t, item.record_id, item.data)
         ELSE IF item.conflict_resolution = MERGE
         THEN TableUpdate(t, item.record_id, MergeData(item.data, t[item.record_id], at))
         ELSE Unchanged(t)
    ELSE TableUpdate(t, item.record_id, item.data)

\* _handle_delete_operation
HandleDeleteOperation(item, t, at) == TableDelete(t, item.record_id)

HandleOperation(item, t, at, raises) ==
    IF raises THEN Raised(t)
    ELSE IF item.operation = CREATE THEN HandleCreateOperation(item, t, at)
    ELSE IF item.operation = UPDATE THEN HandleUpdateOperation(item, t, at)
    ELSE HandleDeleteOperation(item, t, at)

\* _process_sync_item of the endpoints: insert the row as Processing, apply
\* the operation, mark the row.  fault "op": a store call of the operation
\* raises; "mark": the write of Completed raises, inside the same try.
ApiProcessSyncItem(id, req, q, t, at, fault) ==
    LET q1 == Put(q, id, NewRow(id, req, PROCESSING, "object", at))
        r == HandleOperation(req, t, at, fault = "op")
        failed == [status |-> FAILED, error_message |-> E_STORE,
                   retry_count |-> q1[id].retry_count + 1]
    IN  IF r.raised
        THEN [queue |-> QueueUpdate(q1, id, failed), server |-> r.table, full |-> r.full]
        ELSE IF fault = "mark"
        THEN [queue |-> QueueUpdate(q1, id, failed), server |-> r.table, full |-> r.full]
        ELSE [queue |-> QueueUpdate(q1, id, [status |-> COMPLETED, processed_at |-> at]),
              server |-> r.table, full |-> r.full]

\* POST /sync/queue with one mutation of the caller.  fault "insert": the
\* insert of the queue row raises, and the handler records a Failed row.
PostQueue(req, fault) ==
    /\ nextId <= cap
    /\ fault \in FaultKinds({"insert", "op", "mark"})
    /\ IF fault = "insert"
       THEN /\ queue' = Put(queue, nextId,
                            [NewRow(nextId, req, FAILED, "object", now) EXCEPT !.error_message = E_STORE])
            /\ server' = server
            /\ executed' = executed
            /\ effects' = Put(effects, nextId, 0)
       ELSE LET out == ApiProcessSyncItem(nextId, req, queue, server, now, fault)
            IN  /\ ~out.full
                /\ queue' = out.queue
                /\ server' = out.server
                /\ executed' = executed \cup {nextId}
                /\ effects' = Put(effects, nextId, IF out.server # server THEN 1 ELSE 0)
    /\ root' = Put(root, nextId, nextId)
    /\ nextId' = nextId + 1
    /\ faults' = Spend(fault)
    /\ UNCHANGED <<now, batches, running, cap, resolves>>
    /\ consolidated' = FALSE
    /\ swept' = FALSE
    /\ UNCHANGED <<retention, deadline>>
    /\ UNCHANGED service

\* _apply_client_data
ApplyClientData(row, t, at) ==
    IF row.operation = CREATE THEN TableInsert(t, Put(row.data, "id", row.record_id), at)
    ELSE IF row.operation = UPDATE THEN TableUpdate(t, row.record_id, row.data)
    ELSE TableDelete(t, row.record_id)

\* _apply_merged_data
ApplyMergedData(row, merged_data, t, at) ==
    IF row.operation \in {CREATE, UPDATE}
    THEN IF row.record_id \in DOMAIN t
         THEN TableUpdate(t, row.record_id, merged_data)
         ELSE TableInsert(t, Put(merged_data, "id", row.record_id), at)
    ELSE Unchanged(t)

Strategies == {SERVER_WINS, CLIENT_WINS, MERGE, "newest_wins"}

MergedInputs == {NoData, [val |-> "m"]}

\* What one entry of POST /sync/resolve-conflicts does to the target table;
\* raised also stands for the ValueError of an invalid strategy.
ResolutionApplied(row, strategy, merged_data, t, at, raises) ==
    IF strategy = SERVER_WINS THEN Unchanged(t)
    ELSE IF strategy = CLIENT_WINS
    THEN IF raises THEN Raised(t) ELSE ApplyClientData(row, t, at)
    ELSE IF strategy = MERGE /\ merged_data # NoData
    THEN IF raises THEN Raised(t) ELSE ApplyMergedData(row, merged_data, t, at)
    ELSE Raised(t)

\* The row update of a resolution that went through.
ResolutionUpdate(strategy, merged_data, at) ==
    IF strategy = MERGE
    THEN [status |-> COMPLETED, processed_at |-> at, conflict_resolution |-> strategy,
          data |-> merged_data]
    ELSE [status |-> COMPLETED, processed_at |-> at, conflict_resolution |-> strategy]

\* POST /sync/resolve-conflicts with one entry, by the row's owner.  The row
\* is read by id and owner and validated as a SyncQueue; its status is not
\* looked at.
ResolveConflicts(id, strategy, merged_data, fault) ==
    /\ resolves > 0
    /\ resolves' = resolves - 1
    /\ id \in Ids
    /\ ValidSyncQueue(queue[id])
    /\ queue[id].retry_count < MaxCount
    /\ fault \in FaultKinds({"op", "mark"})
    /\ LET row == queue[id]
           r == ResolutionApplied(row, strategy, merged_data, server, now, fault = "op")
           called == strategy = CLIENT_WINS \/ (strategy = MERGE /\ merged_data # NoData)
       IN  /\ ~r.full
           /\ server' = r.table
           /\ queue' = IF r.raised \/ fault = "mark"
                       THEN QueueUpdate(queue, id,
                                [status |-> FAILED, error_message |-> "Conflict resolution failed",
                                 retry_count |-> row.retry_count + 1])
                       ELSE QueueUpdate(queue, id, ResolutionUpdate(strategy, merged_data, now))
           /\ executed' = IF called THEN executed \cup {id} ELSE executed
           /\ effects' = IF r.table # server THEN [effects EXCEPT ![id] = Bump(@)] ELSE effects
    /\ faults' = Spend(fault)
    /\ UNCHANGED <<now, nextId, batches, running, cap, root>>
    /\ consolidated' = FALSE
    /\ swept' = FALSE
    /\ UNCHANGED <<retention, deadline>>
    /\ UNCHANGED service

\* The rows POST /sync/retry-failed reads: the caller's Failed rows with
\* retry_count below the max_retries of the query.
Retryable(q, u, limit) ==
    {i \in DOMAIN q : q[i].user_id = u /\ q[i].status = FAILED /\ q[i].retry_count < limit}

RetryItem(row) ==
    Request(row.user_id, row.record_id, row.operation, row.data, row.conflict_resolution)

RECURSIVE RetryAll(_, _, _, _, _)
\* The loop of retry_failed_sync_items over the rows read, lowest id first.
\* acc carries the tables and the histories; a row that is no valid SyncQueue
\* raises out of the loop.
RetryAll(todo, acc, at, victim, fault) ==
    IF todo = {} THEN acc
    ELSE LET i == CHOOSE x \in todo : \A y \in todo : x <= y
             row == acc.queue[i]
             f == IF i = victim THEN fault ELSE "none"
         IN  IF ~ValidSyncQueue(row) THEN acc
             ELSE IF f = "insert"
             THEN RetryAll(todo \ {i},
                    [acc EXCEPT !.queue = QueueUpdate(@, i,
                        [retry_count |-> row.retry_count + 1, error_message |-> E_STORE])],
                    at, victim, fault)
             ELSE LET new == acc.next
                      out == ApiProcessSyncItem(new, RetryItem(row), acc.queue, acc.server, at, f)
                  IN  RetryAll(todo \ {i},
                        [queue |-> QueueUpdate(out.queue, i, [status |-> COMPLETED, processed_at |-> at]),
                         server |-> out.server,
                         next |-> new + 1,
                         root |-> Put(acc.root, new, acc.root[i]),
                         executed |-> acc.executed \cup {new},
                         effects |-> Put(acc.effects, new, IF out.server # acc.server THEN 1 ELSE 0),
                         full |-> acc.full \/ out.full],
                        at, victim, fault)

RetryLimits == {DefaultMaxRetries, 2 * DefaultMaxRetries}  \* max_retries of the query

\* POST /sync/retry-failed by user u.  victim: the row at whose retry the
\* fault strikes ("insert": the insert of the new queue row raises).
RetryFailed(u, limit, victim, fault) ==
    /\ Retryable(queue, u, limit) # {}
    /\ fault \in FaultKinds({"insert", "op", "mark"})
    /\ fault # "none" <=> victim \in Retryable(queue, u, limit)
    /\ \A i \in Retryable(queue, u, limit) : queue[i].retry_count < MaxCount
    /\ nextId + Cardinality(Retryable(queue, u, limit)) - 1 <= cap
    /\ LET out == RetryAll(Retryable(queue, u, limit),
                    [queue |-> queue, server |-> server, next |-> nextId, root |-> root,
                     executed |-> executed, effects |-> effects, full |-> FALSE],
                    now, victim, fault)
       IN  /\ ~out.full
           /\ queue' = out.queue
           /\ server' = out.server
           /\ nextId' = out.next
           /\ root' = out.root
           /\ executed' = out.executed
           /\ effects' = out.effects
    /\ faults' = Spend(fault)
    /\ UNCHANGED <<now, batches, running, cap, resolves>>
    /\ consolidated' = FALSE
    /\ swept' = FALSE
    /\ UNCHANGED <<retention, deadline>>
    /\ UNCHANGED service

CleanupDays == {0, RetentionWindow}     \* older_than_days of the query, in ticks of the clock

\* DELETE /sync/cleanup by user u: delete().eq("user_id", u)
\*     .eq("status", "completed").lt("processed_at", cutoff)
Cleaned(q, u, at, days) ==
    {i \in DOMAIN q : q[i].user_id = u /\ q[i].status = COMPLETED /\ q[i].processed_at < at - days}

CleanupCompleted(u, days) ==
    /\ Cleaned(queue, u, now, days) # {}
    /\ queue' = [i \in Ids \ Cleaned(queue, u, now, days) |-> queue[i]]
    /\ UNCHANGED <<server, now, nextId, batches, running, faults, cap, resolves, effects, executed, root>>
    /\ consolidated' = FALSE
    /\ swept' = FALSE
    /\ UNCHANGED <<retention, deadline>>
    /\ UNCHANGED service

-----------------------------------------------------------------------------
(* The service's life cycle *)

\* What the calls below leave alone.
stores == <<queue, server, now, nextId, running, faults, cap, resolves, retention, deadline,
            effects, executed, root, detected>>

\* A start_service that does not look at is_running.
StartServiceUnguarded ==
    /\ calls < MaxCalls
    /\ running = NoUser
    /\ calls' = calls + 1
    /\ is_running' = TRUE
    /\ generation' = generation + 1
    /\ tasks' = tasks \cup TasksOf(generation + 1)
    /\ consolidated' = FALSE
    /\ swept' = FALSE
    /\ UNCHANGED <<stores, batches, cancelled, awaited, returned>>

\* start_service: nothing while the service is running; otherwise the flag is
\* set and the four tasks are created and replace self._tasks.
StartService ==
    /\ calls < MaxCalls
    /\ running = NoUser
    /\ calls' = calls + 1
    /\ IF is_running
       THEN UNCHANGED <<is_running, generation, tasks>>
       ELSE /\ is_running' = TRUE
            /\ generation' = generation + 1
            /\ tasks' = tasks \cup TasksOf(generation + 1)
    /\ consolidated' = FALSE
    /\ swept' = FALSE
    /\ UNCHANGED <<stores, batches, cancelled, awaited, returned>>

\* stop_service up to its await: the flag is cleared and, if start_service
\* ever created tasks, those of self._tasks that are not done are cancelled
\* and gathered.  Cancelling the batch processor while it gathers its owner
\* batches cancels the batches that have not started.
StopService ==
    /\ calls < MaxCalls
    /\ running = NoUser
    /\ calls' = calls + 1
    /\ is_running' = FALSE
    /\ cancelled' = cancelled \cup (tasks \cap TasksOf(generation))
    /\ awaited' = IF generation > 0 THEN awaited \cup {generation} ELSE awaited
    /\ batches' = IF <<generation, "batch">> \in tasks THEN [u \in Users |-> <<>>] ELSE batches
    /\ consolidated' = FALSE
    /\ swept' = FALSE
    /\ UNCHANGED <<stores, generation, tasks, returned>>

\* A cancelled task is resumed with CancelledError, which the loop's
\* "except Exception" does not catch, and is done.
LoopEnd(t) ==
    /\ t \in cancelled
    /\ running = NoUser
    /\ tasks' = tasks \ {t}
    /\ cancelled' = cancelled \ {t}
    /\ consolidated' = FALSE
    /\ swept' = FALSE
    /\ UNCHANGED <<stores, batches, is_running, generation, awaited, returned, calls>>

\* stop_service after its await: the gather of the tasks of generation g is
\* over, and the call returns.
StopReturn(g) ==
    /\ g \in awaited
    /\ tasks \cap TasksOf(g) = {}
    /\ awaited' = awaited \ {g}
    /\ returned' = returned \cup {g}
    /\ consolidated' = FALSE
    /\ swept' = FALSE
    /\ UNCHANGED <<stores, batches, is_running, generation, tasks, cancelled, calls>>

-----------------------------------------------------------------------------
(* The detector alone *)

\* _check_for_conflicts applied to the inputs the behaviour started with.
Detect ==
    /\ detected # NoData
    /\ detected.result = "pending"
    /\ detected' = [detected EXCEPT !.result =
                        CheckForConflictsOn(detected.operation, detected.found,
                                            detected.server_updated, detected.client_updated)]
    /\ UNCHANGED <<queue, server, now, nextId, batches, running, faults, cap, resolves,
                   retention, deadline, consolidated, swept, effects, executed, root,
                   is_running, generation, tasks, cancelled, awaited, returned, calls>>

-----------------------------------------------------------------------------
(* Specifications *)

\* The engine's loops with the clients that write rows for it.
EngineNext(reqs) ==
    \/ Tick
    \/ \E req \in reqs : Enqueue(req)
    \/ \E order \in Seqs(PendingIds), f \in BOOLEAN : Poll(order, f)
    \/ \E u \in Users, k \in 0..Cardinality(Ids) : BatchStart(u, k)
    \/ \E u \in Users, fault \in {"none", "detect", "op", "mark"} : BatchItem(u, fault)
    \/ \E order \in Seqs(PendingIds), lost \in SUBSET PendingIds : Optimize(order, lost)
    \/ \E order \in Seqs(ConflictIds), fault \in {"none", "op", "mark"} : ResolvePending(order, fault)
    \/ Sweep

\* The HTTP handlers.
ApiNext(reqs) ==
    \/ \E req \in reqs, fault \in {"none", "insert", "op", "mark"} : PostQueue(req, fault)
    \/ \E id \in Ids, st \in Strategies, md \in MergedInputs, fault \in {"none", "op", "mark"} :
            ResolveConflicts(id, st, md, fault)
    \/ \E u \in Users, limit \in RetryLimits, victim \in Ids \cup {0},
            fault \in {"none", "insert", "op", "mark"} : RetryFailed(u, limit, victim, fault)
    \/ \E u \in Users, days \in CleanupDays : CleanupCompleted(u, days)

\* The stores and the engine's fields after construction.  win is the
\* cleanup loop's 30 days in ticks of the clock and last the time the clock
\* stops at.
Constructed(tables, rows, raising, entries, win, last) ==
    /\ queue = <<>>
    /\ server \in tables
    /\ now = StartTime
    /\ nextId = 1
    /\ batches = [u \in Users |-> <<>>]
    /\ running = NoUser
    /\ faults = raising
    /\ cap = rows
    /\ resolves = entries
    /\ retention = win
    /\ deadline = last
    /\ consolidated = FALSE
    /\ swept = FALSE
    /\ effects = <<>>
    /\ executed = {}
    /\ root = <<>>

\* The state after construction and one start_service call.
StartAt(tables, rows, raising, entries, win, last) ==
    /\ Constructed(tables, rows, raising, entries, win, last)
    /\ is_running = TRUE
    /\ generation = 1
    /\ tasks = TasksOf(1)
    /\ cancelled = {}
    /\ awaited = {}
    /\ returned = {}
    /\ calls = 1
    /\ detected = NoData

\* The same with one tick of the clock for the 30 days.
Start(tables, rows, raising, entries) ==
    StartAt(tables, rows, raising, entries, RetentionWindow, MaxTime)

TablesOf(recs) == {[rid \in present |-> ServerRow(rid)] : present \in SUBSET recs}

\* Spec: the whole system with a store that answers every call; one owner's
\* requests on one record, each operation with its timestamped payload.
SpecOwners == {<<"u1", "r1">>}

Init == Start(TablesOf({"r1"}), MaxItems, 0, MaxResolves)

Next ==
    \/ EngineNext(Stamped(Requests(SpecOwners, Ops, EnginePolicies)))
    \/ ApiNext(Stamped(Requests(SpecOwners, Ops, ApiPolicies)))

Spec == Init /\ [][Next]_vars

\* SpecEngine: the engine alone with more rows, two owners and two records.
EngineOwners == {<<"u1", "r1">>, <<"u1", "r2">>, <<"u2", "r1">>}

InitEngine == Start({[rid \in Recs |-> ServerRow(rid)]}, MaxEngineItems, 0, 0)

NextEngine == EngineNext(Stamped(Requests(EngineOwners, {UPDATE}, {SERVER_WINS, MANUAL})))

SpecEngine == InitEngine /\ [][NextEngine]_vars

\* SpecFaults: the engine alone with a store whose calls may raise; one
\* owner's requests on one record with every payload.
InitFaults == Start(TablesOf({"r1"}), MaxItems, MaxFaults, 0)

NextFaults == EngineNext(Bare(Requests(SpecOwners, {CREATE, UPDATE}, EnginePolicies)))

SpecFaults == InitFaults /\ [][NextFaults]_vars

\* SpecApi: the HTTP handlers alone, with more resolve-conflicts entries.
InitApi == Start(TablesOf({"r1"}), MaxItems, 0, MaxApiResolves)

NextApi ==
    \/ Tick
    \/ ApiNext(Stamped(Requests(SpecOwners, {CREATE, DELETE}, {SERVER_WINS, CLIENT_WINS})))

SpecApi == InitApi /\ [][NextApi]_vars

\* SpecRetry: POST /sync/queue and POST /sync/retry-failed over a store whose
\* calls may raise, with rows enough for a chain of retries.
InitRetry == Start(TablesOf({"r1"}), MaxRetryItems, MaxRetryFaults, 0)

NextRetry ==
    \/ Tick
    \/ \E req \in Stamped(Requests(SpecOwners, {UPDATE}, {SERVER_WINS})),
          fault \in {"none", "insert", "op", "mark"} : PostQueue(req, fault)
    \/ \E u \in Users, limit \in RetryLimits, victim \in Ids \cup {0},
            fault \in {"none", "insert", "op", "mark"} : RetryFailed(u, limit, victim, fault)

SpecRetry == InitRetry /\ [][NextRetry]_vars

\* SpecCleanup: the engine, POST /sync/queue and DELETE /sync/cleanup with a
\* clock of several ticks to the cleanup loop's 30 days, so that a row can be
\* younger than the 30 days and older than the days a cleanup call names.
InitCleanup ==
    StartAt({[rid \in {"r1"} |-> ServerRow(rid)]}, MaxItems, MaxCleanupFaults, 0,
            FineWindow, MaxCleanupTime)

NextCleanup ==
    \/ EngineNext(Stamped(Requests(SpecOwners, {UPDATE}, {SERVER_WINS, MANUAL})))
    \/ \E req \in Stamped(Requests(SpecOwners, {UPDATE}, {SERVER_WINS})),
          fault \in {"none", "op"} : PostQueue(req, fault)
    \/ \E u \in Users, days \in CleanupDays : CleanupCompleted(u, days)

SpecCleanup == InitCleanup /\ [][NextCleanup]_vars

\* SpecBatch: the engine with two owners' updates of one record each, with a
\* timestamp (a conflict) or without (executed), and a store call that raises,
\* so that a batch holds a record that fails and records after it, while
\* another owner's batch waits.
BatchOwners == {<<"u1", "r1">>, <<"u2", "r2">>}

InitBatch == StartAt({[rid \in Recs |-> ServerRow(rid)]}, MaxBatchItems, MaxBatchFaults, 0,
                     RetentionWindow, MaxTime)

NextBatch == EngineNext(Requests(BatchOwners, {UPDATE}, {MANUAL}))

SpecBatch == InitBatch /\ [][NextBatch]_vars

\* SpecLifecycle: the service object from its construction, with the calls
\* that start and stop it, the ends of its cancelled loops, and the loops at
\* work on one owner's updates.
InitLifecycle ==
    /\ Constructed({[rid \in {"r1"} |-> ServerRow(rid)]}, MaxItems, 0, 0,
                   RetentionWindow, MaxTime)
    /\ is_running = FALSE
    /\ generation = 0
    /\ tasks = {}
    /\ cancelled = {}
    /\ awaited = {}
    /\ returned = {}
    /\ calls = 0
    /\ detected = NoData

NextLifecycle ==
    \/ StartService
    \/ StopService
    \/ \E t \in tasks : LoopEnd(t)
    \/ \E g \in awaited : StopReturn(g)
    \/ EngineNext(Stamped(Requests(SpecOwners, {UPDATE}, {CLIENT_WINS, MANUAL})))

SpecLifecycle == InitLifecycle /\ [][NextLifecycle]_vars

\* SpecDetect: the detector applied once to an operation, a target table that
\* holds the record or not, and the texts of the two updated_at fields.
InitDetect ==
    /\ Constructed({<<>>}, 0, 0, 0, RetentionWindow, StartTime)
    /\ is_running = FALSE
    /\ generation = 0
    /\ tasks = {}
    /\ cancelled = {}
    /\ awaited = {}
    /\ returned = {}
    /\ calls = 0
    /\ detected \in [operation : Ops, found : BOOLEAN, server_updated : StampTexts,
                     client_updated : StampTexts, result : {"pending"}]

NextDetect == Detect

SpecDetect == InitDetect /\ [][NextDetect]_vars

-----------------------------------------------------------------------------
(* Properties *)

RowsOf(S) == {i \in Ids : queue[i].status \in S}

\* C1: a row that is Completed keeps every one of its fields in every step;
\* the only thing that may happen to it is its deletion.
C1_CompletedImmutable ==
    [][\A i \in Ids : queue[i].status = COMPLETED =>
            (i \notin DOMAIN queue' \/ queue'[i] = queue[i])]_vars

\* C2: no two rows of sync_queue with the same (table_name, record_id) are
\* Processing at the same time.
C2_OneProcessingPerPair ==
    \A i, j \in RowsOf({PROCESSING}) : (Key(queue[i]) = Key(queue[j])) => (i = j)

\* C3: the retry_count of a row never exceeds its max_retries.
C3_RetryCountBounded ==
    \A i \in Ids : queue[i].retry_count <= queue[i].max_retries

StatusEdges ==
    {<<PENDING, PROCESSING>>,
     <<PROCESSING, COMPLETED>>, <<PROCESSING, FAILED>>, <<PROCESSING, CONFLICT>>,
     <<FAILED, PENDING>>,
     <<CONFLICT, COMPLETED>>, <<CONFLICT, FAILED>>}

\* C4: the status of a row changes only along Pending -> Processing,
\* Processing -> Completed | Failed | Conflict, Failed -> Pending and
\* Conflict -> Completed | Failed.
C4_StatusEdgesOnly ==
    [][\A i \in Ids \cap DOMAIN queue' :
            (queue'[i].status # queue[i].status) =>
                (<<queue[i].status, queue'[i].status>> \in StatusEdges)]_vars

\* C5: the processing of one queued row changes the target table at most
\* once, also when a status write fails and the row is polled again.
C5_EffectAtMostOnce ==
    \A i \in DOMAIN effects : effects[i] <= 1

Attempts(r) == {i \in executed : root[i] = r}

\* C6: the operation of one client request is run at most once plus
\* max_retries times, however often POST /sync/retry-failed is called.
C6_RetriesBounded ==
    \A r \in DOMAIN root : Cardinality(Attempts(r)) <= 1 + DefaultMaxRetries

\* C7: the conflict_resolution of a row changes only while the row is in
\* Conflict status.
C7_PolicyKept ==
    [][\A i \in Ids \cap DOMAIN queue' :
            (queue'[i].conflict_resolution # queue[i].conflict_resolution) =>
                (queue[i].status = CONFLICT)]_vars

PendingOn(key) == {i \in PendingIds : Key(queue[i]) = key}

PendingOf(u, key) == {i \in PendingOn(key) : queue[i].user_id = u}

\* What a pass of the consolidator leaves of a group P of two or more Pending
\* rows: one row of P, with the greatest created_at, still Pending, and every
\* other row of P Completed with the superseded marker.
Consolidated(P) ==
    \E k \in P :
        /\ queue'[k].status = PENDING
        /\ \A j \in P : queue[j].created_at <= queue[k].created_at
        /\ \A j \in P \ {k} : /\ queue'[j].status = COMPLETED
                              /\ queue'[j].error_message = SUPERSEDED

C9_SupersededNeverExecuted ==
    \A i \in Ids :
        (queue[i].status = COMPLETED /\ queue[i].error_message = SUPERSEDED) =>
            (i \notin executed)

\* The step is the batch's processing of its next row, whose policy is
\* server_wins and for which the detector reports a conflict.
ServerWinsInBatch(u) ==
    /\ running = u
    /\ batches[u] # <<>>
    /\ batches'[u] = Tail(batches[u])
    /\ Head(batches[u]).conflict_resolution = SERVER_WINS
    /\ CheckForConflicts(Head(batches[u]), server, FALSE).has_conflict

\* The step is a handler's processing of one new row, whose policy is
\* server_wins and whose create or update meets a conflicting server row.
ServerWinsInHandler ==
    /\ nextId' = nextId + 1
    /\ nextId \in DOMAIN queue'
    /\ queue'[nextId].data_enc = "object"
    /\ queue'[nextId].conflict_resolution = SERVER_WINS
    /\ queue'[nextId].record_id \in DOMAIN server
    /\ \/ queue'[nextId].operation = CREATE
       \/ /\ queue'[nextId].operation = UPDATE
          /\ HasConflict(queue'[nextId].data, server[queue'[nextId].record_id])

\* C10: processing a row whose policy is server_wins and for which a conflict
\* is detected leaves the target table as it was and the row Completed.
C10_ServerWinsKeepsServer ==
    [][/\ \A u \in Users :
            ServerWinsInBatch(u) =>
                /\ server' = server
                /\ Head(batches[u]).id \in Ids => queue'[Head(batches[u]).id].status = COMPLETED
       /\ ServerWinsInHandler =>
                /\ server' = server
                /\ queue'[nextId].status = COMPLETED]_vars

\* The engine has completed a server_wins update that conflicted with a newer
\* server row without running it.
C10_Witness ==
    \E i \in Ids :
        /\ queue[i].data_enc = "text"
        /\ queue[i].operation = UPDATE
        /\ queue[i].conflict_resolution = SERVER_WINS
        /\ queue[i].status = COMPLETED
        /\ queue[i].error_message = NULL
        /\ i \notin executed
        /\ queue[i].record_id \in DOMAIN server
        /\ server[queue[i].record_id] = ServerRow(queue[i].record_id)

\* The step is the batch's processing of its next row, whose policy is pol
\* and for which the detector reports a conflict.
ConflictInBatch(u, pol) ==
    /\ running = u
    /\ batches[u] # <<>>
    /\ batches'[u] = Tail(batches[u])
    /\ Head(batches[u]).conflict_resolution = pol
    /\ CheckForConflicts(Head(batches[u]), server, FALSE).has_conflict

\* After the step the target table holds the client's payload of item,
\* stamped with the time of the step, or, for a delete, no such record.
ClientApplied(item) ==
    IF item.operation = DELETE
    THEN item.record_id \notin DOMAIN server'
    ELSE /\ item.record_id \in DOMAIN server'
         /\ \A k \in DOMAIN item.data \ {"updated_at"} :
                /\ k \in DOMAIN server'[item.record_id]
                /\ server'[item.record_id][k] = item.data[k]
         /\ server'[item.record_id]["updated_at"] = now

\* C11: processing a row whose policy is client_wins and for which a conflict
\* is detected leaves the target record holding every payload field with
\* updated_at at the time of the resolution (create, update, also of a record
\* the table does not hold), or absent (delete).
C11_ClientWinsForces ==
    [][\A u \in Users :
            ConflictInBatch(u, CLIENT_WINS) => ClientApplied(Head(batches[u]))]_vars

Protected == {"id", "created_at"}

\* The record a field-level merge of payload data into the server row snap
\* at time at is to produce.
ExpectedMerge(data, snap, at) ==
    [k \in DOMAIN snap \cup (DOMAIN data \ Protected) \cup {"updated_at"} |->
        IF k = "updated_at" THEN at
        ELSE IF k \in DOMAIN data \ Protected THEN data[k]
        ELSE snap[k]]

\* After the step the target record of row is the merge of its payload into
\* the server row the step found, and the row id is Completed.
MergeApplied(row, id) ==
    /\ row.record_id \in DOMAIN server
    /\ row.record_id \in DOMAIN server'
    /\ server'[row.record_id] = ExpectedMerge(row.data, server[row.record_id], now)
    /\ id \in DOMAIN queue' => queue'[id].status = COMPLETED

\* The step is a handler's processing of one new row, whose policy is merge
\* and whose update meets a newer server row.
MergeInHandler ==
    /\ nextId' = nextId + 1
    /\ nextId \in DOMAIN queue'
    /\ queue'[nextId].data_enc = "object"
    /\ queue'[nextId].conflict_resolution = MERGE
    /\ queue'[nextId].operation = UPDATE
    /\ queue'[nextId].record_id \in DOMAIN server
    /\ HasConflict(queue'[nextId].data, server[queue'[nextId].record_id])

EffectPresent(item, t) ==
    IF item.operation = DELETE
    THEN item.record_id \notin DOMAIN t
    ELSE /\ item.operation = UPDATE
         /\ item.record_id \in DOMAIN t
         /\ \A k \in DOMAIN item.data :
                Has(t[item.record_id], k) /\ t[item.record_id][k] = item.data[k]

\* The step is the batch's processing of a row whose effect is present.
ReplayInBatch(u) ==
    /\ running = u
    /\ batches[u] # <<>>
    /\ batches'[u] = Tail(batches[u])
    /\ EffectPresent(Head(batches[u]), server)

\* The step is a handler's processing of one new row whose effect is present.
ReplayInHandler ==
    /\ nextId' = nextId + 1
    /\ nextId \in DOMAIN queue'
    /\ queue'[nextId].data_enc = "object"
    /\ EffectPresent(queue'[nextId], server)

\* C13: processing an update or a delete whose effect the target table
\* already shows succeeds (the row is Completed) and leaves the target table
\* as it was.
C13_ReplayIdempotent ==
    [][/\ \A u \in Users :
            ReplayInBatch(u) =>
                /\ server' = server
                /\ Head(batches[u]).id \in Ids => queue'[Head(batches[u]).id].status = COMPLETED
       /\ ReplayInHandler =>
                /\ server' = server
                /\ queue'[nextId].status = COMPLETED]_vars

\* The engine has run and completed an update that changed nothing, the
\* record holding the payload already.
C13_Witness ==
    \E i \in Ids :
        /\ queue[i].data_enc = "text"
        /\ queue[i].operation = UPDATE
        /\ queue[i].status = COMPLETED
        /\ i \in executed
        /\ effects[i] = 0
        /\ EffectPresent(queue[i], server)

\* The rows the step deletes.
Gone == Ids \ DOMAIN queue'

\* Row i is Completed and was processed at least w before now.
CompletedFor(i, w) ==
    /\ queue[i].status = COMPLETED
    /\ queue[i].processed_at # 0
    /\ queue[i].processed_at <= now - w

PolicyError(strategy, merged_data) ==
    \/ strategy \notin {SERVER_WINS, CLIENT_WINS, MERGE}
    \/ strategy = MERGE /\ merged_data = NoData

\* C15: a resolve call whose entry is a policy error leaves the addressed
\* sync record and the target table as they were.
C15_PolicyErrorRejected ==
    [][\A id \in Ids, strategy \in Strategies, merged_data \in MergedInputs :
          (PolicyError(strategy, merged_data)
             /\ ResolveConflicts(id, strategy, merged_data, "none"))
          => (queue'[id] = queue[id] /\ server' = server)]_vars

\* C16: a resolve call that names a sync record whose status is not Conflict
\* changes neither that record nor the target table.
C16_ResolveOnlyConflict ==
    [][\A id \in Ids, strategy \in Strategies, merged_data \in MergedInputs :
          (queue[id].status # CONFLICT
             /\ ResolveConflicts(id, strategy, merged_data, "none"))
          => (queue'[id] = queue[id] /\ server' = server)]_vars

\* C17: POST /sync/queue stores the mutation as a Pending sync record and
\* does not apply it to the target table.
C17_EnqueueDefers ==
    [][\A req \in Requests(SpecOwners, Ops, ApiPolicies) :
          PostQueue(req, "none")
          => (server' = server /\ queue'[nextId].status = PENDING)]_vars

\* C18: a step that is not a POST /sync/resolve-conflicts call neither
\* deletes a sync record that is in Conflict nor changes its status.
C18_ConflictLeftToResolve ==
    [][resolves' = resolves =>
          \A i \in ConflictIds : i \in DOMAIN queue' /\ queue'[i].status = CONFLICT]_vars

\* A pass of the cleanup loop has just run over a Conflict row as old as the
\* retention window, and the row is still there.
C18_Witness ==
    /\ swept
    /\ \E i \in ConflictIds : queue[i].processed_at <= now - retention

\* C19: once every batch of a poll cycle has finished, no sync record is
\* left in Processing.
C19_NoneLeftProcessing ==
    (running = NoUser /\ \A u \in Users : batches[u] = <<>>)
        => \A i \in Ids : queue[i].status # PROCESSING

ResolutionFailsInBatch(u) ==
    /\ ConflictInBatch(u, CLIENT_WINS) \/ ConflictInBatch(u, MERGE)
    /\ BatchItem(u, "none")
    /\ Head(batches[u]).id \in Ids
    /\ ~ProcessSyncItem(Head(batches[u]), queue, server, now, "none").success

\* C21: a resolution that fails leaves the sync record Failed, with an error
\* message and with retry_count one higher than before.
C21_FailedResolutionMarked ==
    [][\A u \in Users :
          ResolutionFailsInBatch(u) =>
              LET id == Head(batches[u]).id
              IN  /\ queue'[id].status = FAILED
                  /\ queue'[id].error_message # NULL
                  /\ queue'[id].retry_count = queue[id].retry_count + 1]_vars

HasTime(text) == text.zone \in {"offset", "naive"}

\* The conflict the detector is to report for an operation on a record the
\* table holds or not, given the texts of the two updated_at fields.
ExpectedDetection(op, found, server_updated, client_updated) ==
    IF op = CREATE THEN (IF found THEN "record_exists" ELSE "none")
    ELSE IF op = DELETE THEN (IF found THEN "record_exists" ELSE "none")
    ELSE IF ~found THEN "record_not_found"
    ELSE IF /\ HasTime(server_updated) /\ HasTime(client_updated)
            /\ server_updated.at > client_updated.at
         THEN "newer_version"
         ELSE "none"

\* C22: the detector reports record_exists for a create or a delete of a
\* record the table holds, record_not_found for an update of a record it does
\* not hold, newer_version for an update exactly when the server's updated_at
\* is strictly later than the payload's, and no conflict in every other case.
C22_DetectionExact ==
    (detected # NoData /\ detected.result # "pending")
        => detected.result = ExpectedDetection(detected.operation, detected.found,
                                               detected.server_updated, detected.client_updated)

\* The step is the batch's processing of its next row, for which no conflict
\* is detected, and the store call that writes the row's operation to the
\* target table raises.
TransientErrorInBatch(u) ==
    /\ running = u
    /\ batches[u] # <<>>
    /\ Head(batches[u]).id \in Ids
    /\ ~CheckForConflicts(Head(batches[u]), server, FALSE).has_conflict
    /\ BatchItem(u, "op")
    /\ ProcessSyncItem(Head(batches[u]), queue, server, now, "op").ran
    /\ ~ProcessSyncItem(Head(batches[u]), queue, server, now, "op").success

\* C23: a row whose processing hits a raising store call goes back to Pending
\* while its retry_count is below max_retries, and is Failed otherwise.
C23_TransientErrorRequeues ==
    [][\A u \in Users :
          TransientErrorInBatch(u) =>
              LET id == Head(batches[u]).id
              IN  queue'[id].status =
                      IF queue[id].retry_count < queue[id].max_retries
                      THEN PENDING ELSE FAILED]_vars

\* C24: while an owner's batch is running, a step takes at most its first
\* record off the batch, the batch goes on as long as records are left in it
\* whatever the outcome of the record, and the other owners' batches of the
\* poll cycle are left as they are.
C24_BatchNeverAborted ==
    [][\A u \in Users :
          running = u =>
              /\ batches'[u] \in {batches[u], Tail(batches[u])}
              /\ Len(batches'[u]) > 0 => running' = u
              /\ \A v \in Users \ {u} : batches'[v] = batches[v]]_vars

\* In the middle of an owner's batch a record has just failed on a raising
\* store call, the batch is still running with a record left, and another
\* owner's batch of the same poll cycle is waiting.
C24_Witness ==
    \E u \in Users :
        /\ running = u
        /\ batches[u] # <<>>
        /\ \E v \in Users \ {u} : batches[v] # <<>>
        /\ \E i \in Ids : /\ queue[i].user_id = u
                          /\ queue[i].status = FAILED
                          /\ queue[i].error_message = E_STORE
                          /\ queue[i].processed_at = now

\* C25: no owner batch starts while the service is stopped, and once the
\* service is stopped and its loops are done no sync record is in Processing.
C25_StopLeavesNoneProcessing ==
    [][/\ (running = NoUser /\ running' # NoUser) => is_running
       /\ (~is_running' /\ tasks' = {}) =>
              \A i \in DOMAIN queue' : queue'[i].status # PROCESSING]_vars

\* The tasks of the loop that are neither done nor cancelled.
Instances(loop) == {t \in tasks \ cancelled : t[2] = loop}

\* C30: whatever start_service and stop_service calls are made, each loop has
\* at most one task that is neither done nor cancelled; start_service while
\* the service is running creates no task; stop_service before any start
\* changes nothing but the call count; and once a stop_service call has
\* returned, the tasks it gathered are done.
C30_OneInstancePerLoop ==
    [][/\ \A loop \in Loops : Cardinality(Instances(loop)') <= 1
       /\ (is_running /\ is_running' /\ calls' = calls + 1) => tasks' = tasks
       /\ (generation = 0 /\ ~is_running' /\ calls' = calls + 1) =>
              (tasks' = {} /\ cancelled' = {} /\ awaited' = {} /\ queue' = queue)
       /\ \A g \in returned' : tasks' \cap TasksOf(g) = {}]_vars

\* The service was started, stopped and started again, with one more call in
\* between: the first generation's tasks are done, its stop call has
\* returned, and the second generation's four loops are running.
C30_Witness ==
    /\ calls = MaxCalls
    /\ generation = 2
    /\ 1 \in returned
    /\ is_running
    /\ tasks = TasksOf(2)
    /\ cancelled = {}

C27_FailedDetectionHolds ==
    [][\A u \in Users :
          (running = u /\ batches[u] # <<>> /\ BatchItem(u, "detect"))
              => server' = server]_vars

\* The step is the batch's processing of its next row, a create for which no
\* conflict is detected, and it leaves the row Completed.
CreateCompletedInBatch(u) ==
    /\ running = u
    /\ batches[u] # <<>>
    /\ batches'[u] = Tail(batches[u])
    /\ Head(batches[u]).operation = CREATE
    /\ ~CheckForConflicts(Head(batches[u]), server, FALSE).has_conflict
    /\ Head(batches[u]).id \in DOMAIN queue'
    /\ queue'[Head(batches[u]).id].status = COMPLETED

\* C28: when the batch completes a create without conflict, the target table
\* holds a record whose id is the sync record's record_id.
C28_CreateUsesRecordId ==
    [][\A u \in Users :
          CreateCompletedInBatch(u) => Head(batches[u]).record_id \in DOMAIN server']_vars

\* The step is the batch's processing of its next row, a delete whose policy
\* is client_wins or merge, and it is this step that makes the row Completed.
DeleteCompletedInBatch(u) ==
    /\ running = u
    /\ batches[u] # <<>>
    /\ batches'[u] = Tail(batches[u])
    /\ Head(batches[u]).operation = DELETE
    /\ Head(batches[u]).conflict_resolution \in {CLIENT_WINS, MERGE}
    /\ Head(batches[u]).id \in Ids
    /\ queue[Head(batches[u]).id].status # COMPLETED
    /\ Head(batches[u]).id \in DOMAIN queue'
    /\ queue'[Head(batches[u]).id].status = COMPLETED

\* C29: when the batch completes a delete whose policy is client_wins or
\* merge, the target table no longer holds the record.
C29_CompletedDeleteRemoves ==
    [][\A u \in Users :
          DeleteCompletedInBatch(u) => Head(batches[u]).record_id \notin DOMAIN server']_vars

====
